---- MODULE Spec2Model ----
(***************************************************************************)
(* A model of src/server/agno/agnoBridge.py: the four in-memory            *)
(* registries (models, agents, memory_managers, tools) and the Flask       *)
(* handlers that read and write them.                                      *)
(*                                                                         *)
(* Values.  JSON strings are TLA+ strings; JSON numbers that the code only *)
(* stores (temperature, maxTokens, workspaceId) are written as their text. *)
(* Python's None is the string None where the slot otherwise holds a       *)
(* string, and the record NoneObj where it otherwise holds an object.      *)
(* A dict is a function whose DOMAIN is its key set, so `k in d` is        *)
(* k \in DOMAIN d.  A request body is malformed text, the JSON value null, *)
(* or a JSON object.                                                       *)
(***************************************************************************)
EXTENDS Integers, Sequences, FiniteSets, TLC

VARIABLES
    models,           \* line 94: id -> OpenAIChat / Claude object
    agents,           \* line 95: id -> Agent object
    memory_managers,  \* line 96: id -> MemoryManager object
    tools,            \* line 97: id -> Function object
    req,              \* the request served last: [op, id, body]
    resp,             \* the response returned last: [status, body]
    threads,          \* requests in flight, each at a line of its handler
    memory_log,       \* history: per memory manager, the contents added since it was created
    agent_origin,     \* history: per agent, the params of the request that created it and
                      \*          whether its modelId was a key of models at that time
    replaced          \* history: the model object the last request overwrote, if any

vars == <<models, agents, memory_managers, tools, req, resp, threads,
          memory_log, agent_origin, replaced>>

registries == <<models, agents, memory_managers, tools>>

-----------------------------------------------------------------------------
(* Bounds of the model.                                                    *)

\* addMemory calls served per memory manager
MaxAdds == 4

-----------------------------------------------------------------------------
(* Python values.                                                          *)

None == "<None>"

NoneObj == [class |-> "NoneType"]

IsNone(v) == "class" \in DOMAIN v /\ v.class = "NoneType"

EmptyDict == <<>>

\* truth value of an optional string, as `if model_id` tests it
Truthy(v) == v # None /\ v # ""

\* a JSON number or string whose kind matters to the code (workspaceId)
JNum(n) == [json |-> "number", n |-> n]

JStr(s) == [json |-> "string", s |-> s]

\* truth value of an optional JSON value, as `if workspace_id` tests it
TruthyJson(v) ==
    /\ ~IsNone(v)
    /\ IF v.json = "number" THEN v.n # 0 ELSE v.s # ""

\* str(v)
Str(v) == IF v.json = "number" THEN ToString(v.n) ELSE v.s

\* dict.get(key, default)
Get(d, key, default) == IF key \in DOMAIN d THEN d[key] ELSE default

\* str.lower() on the type names the requests carry
Lower(s) ==
    CASE s = "OpenAI" -> "openai"
      [] s = "OPENAI" -> "openai"
      [] s = "Anthropic" -> "anthropic"
      [] s = "Unsupported" -> "unsupported"
      [] OTHER -> s

\* os.environ.get(name): the process environment is fixed for a run
Environ(name) == "env:" \o name

-----------------------------------------------------------------------------
(* The mocked Agno classes, lines 14-89.                                   *)

Message(role, content) == [class |-> "Message", role |-> role, content |-> content]

Response(message) == [class |-> "Response", message |-> message, tool_calls |-> None]

OpenAIChat(id, name, api_key, temperature, max_tokens, system_prompt) ==
    [class |-> "OpenAIChat", id |-> id, name |-> name, api_key |-> api_key,
     temperature |-> temperature, max_tokens |-> max_tokens,
     system_prompt |-> system_prompt]

Claude(id, name, api_key, temperature, max_tokens, system_prompt) ==
    [class |-> "Claude", id |-> id, name |-> name, api_key |-> api_key,
     temperature |-> temperature, max_tokens |-> max_tokens,
     system_prompt |-> system_prompt]

\* OpenAIChat.response / Claude.response: the messages are ignored
Model_response(self, messages) ==
    IF self.class = "OpenAIChat"
    THEN Response(Message("assistant", "This is a response from the simulated OpenAI model."))
    ELSE Response(Message("assistant", "This is a response from the simulated Claude model."))

Function(name, description, parameters) ==
    [class |-> "Function", name |-> name, description |-> description,
     parameters |-> parameters]

\* an optional list argument: `agent_tools if agent_tools else None`
ListOrNone(l) == IF l # <<>> THEN [some |-> TRUE, val |-> l] ELSE [some |-> FALSE]

\* `tools or []`
OrEmptyList(opt) == IF opt.some /\ opt.val # <<>> THEN opt.val ELSE <<>>

Agent(name, agent_id, model, system_message, tools_arg) ==
    [class |-> "Agent", name |-> name, agent_id |-> agent_id, model |-> model,
     system_message |-> system_message, tools |-> OrEmptyList(tools_arg),
     user_message |-> None, session_id |-> None]

NoModelText == <<"No model available for this agent">>

RunText(name, user_message) ==
    <<"I am ", name, ", executing a response based on: ", user_message>>

\* Agent.run without the test of line 64
Agent_run_untested(self) == RunText(self.name, self.user_message)

\* Agent.run: an object is always true, None is not
Agent_run(self) ==
    IF ~IsNone(self.model)
    THEN RunText(self.name, self.user_message)
    ELSE NoModelText

MemoryManager(model, limit) ==
    [class |-> "MemoryManager", model |-> model, limit |-> limit, memories |-> <<>>]

Memory(content) == [class |-> "Memory", content |-> content]

\* add_memory with the test of line 81 off by one: `>` for `>=`
MemoryManager_add_memory_gt(self, content) ==
    IF Len(self.memories) > self.limit
    THEN IF self.memories = <<>>
         THEN [raised |-> TRUE, error |-> "pop from empty list", self |-> self]
         ELSE [raised |-> FALSE, result |-> TRUE,
               self |-> [self EXCEPT !.memories = Append(Tail(self.memories), Memory(content))]]
    ELSE [raised |-> FALSE, result |-> TRUE,
          self |-> [self EXCEPT !.memories = Append(self.memories, Memory(content))]]

\* add_memory evicting the newest entry: pop() for pop(0)
MemoryManager_add_memory_pop_last(self, content) ==
    IF Len(self.memories) >= self.limit
    THEN IF self.memories = <<>>
         THEN [raised |-> TRUE, error |-> "pop from empty list", self |-> self]
         ELSE [raised |-> FALSE, result |-> TRUE,
               self |-> [self EXCEPT !.memories =
                            Append(SubSeq(self.memories, 1, Len(self.memories) - 1),
                                   Memory(content))]]
    ELSE [raised |-> FALSE, result |-> TRUE,
          self |-> [self EXCEPT !.memories = Append(self.memories, Memory(content))]]

\* add_memory evicting only from a list that has an entry
MemoryManager_add_memory_safe_pop(self, content) ==
    IF Len(self.memories) >= self.limit /\ self.memories # <<>>
    THEN [raised |-> FALSE, result |-> TRUE,
          self |-> [self EXCEPT !.memories = Append(Tail(self.memories), Memory(content))]]
    ELSE [raised |-> FALSE, result |-> TRUE,
          self |-> [self EXCEPT !.memories = Append(self.memories, Memory(content))]]

\* MemoryManager.add_memory: list.pop(0) of an empty list raises IndexError
\* before anything is appended
MemoryManager_add_memory(self, content) ==
    IF Len(self.memories) >= self.limit
    THEN IF self.memories = <<>>
         THEN [raised |-> TRUE, error |-> "pop from empty list", self |-> self]
         ELSE [raised |-> FALSE, result |-> TRUE,
               self |-> [self EXCEPT !.memories = Append(Tail(self.memories), Memory(content))]]
    ELSE [raised |-> FALSE, result |-> TRUE,
          self |-> [self EXCEPT !.memories = Append(self.memories, Memory(content))]]

-----------------------------------------------------------------------------
(* Requests and responses.                                                 *)

Malformed == [kind |-> "malformed"]

Null == [kind |-> "null"]

Obj(j) == [kind |-> "object", json |-> j]

\* request.json raises BadRequest on text that is not JSON; the except
\* clause of line 104 turns it into a dict with the single key "error"
parse_json_params(body) ==
    CASE body.kind = "malformed" -> [error |-> "400 Bad Request"]
      [] body.kind = "null" -> NoneObj
      [] OTHER -> body.json

jsonify(status, body) == [status |-> status, body |-> body]

\* the except clause each handler ends with
Unhandled(e) == jsonify(500, [error |-> e, traceback |-> "traceback"])

NotFound(what, id) == jsonify(404, [error |-> <<what, id, " not found">>])

\* an assignment d[k] = v that drops the other keys of d
Update_reset(f, k, v) == [x \in {k} |-> v]

\* d[k] = v
Update(f, k, v) == [x \in DOMAIN f \cup {k} |-> IF x = k THEN v ELSE f[x]]

Idle == [pc |-> "idle"]

NoneInFlight == \A t \in DOMAIN threads : threads[t].pc = "idle"

-----------------------------------------------------------------------------
(* POST /models, lines 107-152.                                            *)

\* build_model with the else branch of line 139 falling back to the default
\* provider instead of rejecting the type
build_model_fallback(model_type, model_name, model_config) ==
    IF Lower(model_type) = "anthropic"
    THEN Claude(Get(model_config, "model", "claude-3-7-sonnet-20250219"),
                model_name,
                Environ("ANTHROPIC_API_KEY"),
                Get(model_config, "temperature", "0.7"),
                Get(model_config, "maxTokens", None),
                Get(model_config, "systemPrompt", None))
    ELSE OpenAIChat(Get(model_config, "model", "gpt-4o"),
                    model_name,
                    Environ("OPENAI_API_KEY"),
                    Get(model_config, "temperature", "0.7"),
                    Get(model_config, "maxTokens", None),
                    Get(model_config, "systemPrompt", None))

\* build_model with the temperature default applied only when the config
\* names no model either
build_model_coupled(model_type, model_name, model_config) ==
    LET temperature_default ==
            IF "model" \in DOMAIN model_config THEN None ELSE "0.7"
    IN  IF Lower(model_type) = "openai"
        THEN OpenAIChat(Get(model_config, "model", "gpt-4o"),
                        model_name,
                        Environ("OPENAI_API_KEY"),
                        Get(model_config, "temperature", temperature_default),
                        Get(model_config, "maxTokens", None),
                        Get(model_config, "systemPrompt", None))
        ELSE IF Lower(model_type) = "anthropic"
        THEN Claude(Get(model_config, "model", "claude-3-7-sonnet-20250219"),
                    model_name,
                    Environ("ANTHROPIC_API_KEY"),
                    Get(model_config, "temperature", temperature_default),
                    Get(model_config, "maxTokens", None),
                    Get(model_config, "systemPrompt", None))
        ELSE NoneObj

\* lines 119-140: the object built for a supported type; NoneObj stands for
\* the else branch, which builds nothing
build_model(model_type, model_name, model_config) ==
    IF Lower(model_type) = "openai"
    THEN OpenAIChat(Get(model_config, "model", "gpt-4o"),
                    model_name,
                    Environ("OPENAI_API_KEY"),
                    Get(model_config, "temperature", "0.7"),
                    Get(model_config, "maxTokens", None),
                    Get(model_config, "systemPrompt", None))
    ELSE IF Lower(model_type) = "anthropic"
    THEN Claude(Get(model_config, "model", "claude-3-7-sonnet-20250219"),
                model_name,
                Environ("ANTHROPIC_API_KEY"),
                Get(model_config, "temperature", "0.7"),
                Get(model_config, "maxTokens", None),
                Get(model_config, "systemPrompt", None))
    ELSE NoneObj

\* store_model keeping the entry the registry already holds (setdefault)
store_model_keep_first(model_id, model) ==
    IF model_id \in DOMAIN models THEN models ELSE Update(models, model_id, model)

\* line 143: models[model_id] = model
store_model(model_id, model) == Update(models, model_id, model)

\* create_model writing through to the holders of the handle it replaces,
\* as if the registry entry were updated in place
create_model_rebinding(body) ==
    LET params == parse_json_params(body) IN
    /\ req' = [op |-> "create_model", id |-> None, body |-> body]
    /\ IF IsNone(params)
       THEN /\ resp' = Unhandled("TypeError")
            /\ replaced' = NoneObj
            /\ UNCHANGED <<models, agents, memory_managers>>
       ELSE LET model_type == Get(params, "type", "openai")
                model_id == Get(params, "id", "default-model")
                model_name == Get(params, "name", "Default Model")
                model_config == Get(params, "config", EmptyDict)
                model == build_model(model_type, model_name, model_config)
                old == Get(models, model_id, NoneObj)
            IN  IF IsNone(model)
                THEN /\ resp' = jsonify(400, [error |-> <<"Unsupported model type: ", model_type>>])
                     /\ replaced' = NoneObj
                     /\ UNCHANGED <<models, agents, memory_managers>>
                ELSE /\ models' = store_model(model_id, model)
                     /\ agents' = [a \in DOMAIN agents |->
                            IF ~IsNone(old) /\ agents[a].model = old
                            THEN [agents[a] EXCEPT !.model = model]
                            ELSE agents[a]]
                     /\ memory_managers' = [k \in DOMAIN memory_managers |->
                            IF ~IsNone(old) /\ memory_managers[k].model = old
                            THEN [memory_managers[k] EXCEPT !.model = model]
                            ELSE memory_managers[k]]
                     /\ replaced' = old
                     /\ resp' = jsonify(200, [id |-> model_id, name |-> model_name,
                                              type |-> model_type, status |-> "created"])
    /\ UNCHANGED <<tools, threads, memory_log, agent_origin>>

create_model(body) ==
    LET params == parse_json_params(body) IN
    /\ req' = [op |-> "create_model", id |-> None, body |-> body]
    /\ IF IsNone(params)
       THEN \* 'type' in None raises TypeError
            /\ resp' = Unhandled("TypeError")
            /\ replaced' = NoneObj
            /\ UNCHANGED models
       ELSE LET model_type == Get(params, "type", "openai")
                model_id == Get(params, "id", "default-model")
                model_name == Get(params, "name", "Default Model")
                model_config == Get(params, "config", EmptyDict)
                model == build_model(model_type, model_name, model_config)
            IN  IF IsNone(model)
                THEN /\ resp' = jsonify(400, [error |-> <<"Unsupported model type: ", model_type>>])
                     /\ replaced' = NoneObj
                     /\ UNCHANGED models
                ELSE /\ models' = store_model(model_id, model)
                     /\ replaced' = Get(models, model_id, NoneObj)
                     /\ resp' = jsonify(200, [id |-> model_id, name |-> model_name,
                                              type |-> model_type, status |-> "created"])
    /\ UNCHANGED <<agents, memory_managers, tools, threads, memory_log, agent_origin>>

-----------------------------------------------------------------------------
(* POST /models/<model_id>/generate, lines 154-182.                        *)

\* lines 167-171: the loop that converts the messages
RECURSIVE agno_messages(_)
agno_messages(messages) ==
    IF messages = <<>>
    THEN <<>>
    ELSE <<Message(Get(Head(messages), "role", "user"),
                   Get(Head(messages), "content", ""))>>
         \o agno_messages(Tail(messages))

generate_response(model_id, body) ==
    /\ req' = [op |-> "generate_response", id |-> model_id, body |-> body]
    /\ IF model_id \notin DOMAIN models
       THEN resp' = NotFound("Model ", model_id)
       ELSE LET params == parse_json_params(body) IN
            IF IsNone(params)
            THEN \* None.get raises AttributeError
                 resp' = Unhandled("AttributeError")
            ELSE LET model == models[model_id]
                     messages == Get(params, "messages", <<>>)
                     response == Model_response(model, agno_messages(messages))
                 IN  resp' = jsonify(200, [content |-> response.message.content,
                                           role |-> response.message.role,
                                           tool_calls |-> response.tool_calls])
    /\ replaced' = NoneObj
    /\ UNCHANGED <<registries, threads, memory_log, agent_origin>>

-----------------------------------------------------------------------------
(* POST /agents, lines 184-224.                                            *)

\* model_missing with the existence check left out
model_missing_unchecked(model_id) == FALSE

\* lines 196 and 294: `model_id and model_id not in models`
model_missing(model_id) == Truthy(model_id) /\ model_id \notin DOMAIN models

\* lines 199 and 297: `models.get(model_id) if model_id else None`
lookup_model(model_id) ==
    IF Truthy(model_id)
    THEN IF model_id \in DOMAIN models THEN models[model_id] ELSE NoneObj
    ELSE NoneObj

\* agent_tools leaving the loop at the first id it does not find
RECURSIVE agent_tools_until_missing(_)
agent_tools_until_missing(tools_list) ==
    IF tools_list = <<>> \/ Head(tools_list) \notin DOMAIN tools
    THEN <<>>
    ELSE <<tools[Head(tools_list)]>> \o agent_tools_until_missing(Tail(tools_list))

\* lines 202-205: the loop that collects the tools that exist
RECURSIVE agent_tools(_)
agent_tools(tools_list) ==
    IF tools_list = <<>>
    THEN <<>>
    ELSE (IF Head(tools_list) \in DOMAIN tools
          THEN <<tools[Head(tools_list)]>>
          ELSE <<>>)
         \o agent_tools(Tail(tools_list))

create_agent(body) ==
    LET params == parse_json_params(body) IN
    /\ req' = [op |-> "create_agent", id |-> None, body |-> body]
    /\ IF IsNone(params)
       THEN /\ resp' = Unhandled("AttributeError")
            /\ UNCHANGED <<agents, agent_origin>>
       ELSE LET agent_id == Get(params, "id", "default-agent")
                agent_name == Get(params, "name", "Default Agent")
                model_id == Get(params, "modelId", None)
                system_prompt == Get(params, "systemPrompt", "")
                tools_list == Get(params, "tools", <<>>)
            IN  IF model_missing(model_id)
                THEN /\ resp' = NotFound("Model ", model_id)
                     /\ UNCHANGED <<agents, agent_origin>>
                ELSE LET agent == Agent(agent_name, agent_id, lookup_model(model_id),
                                        system_prompt, ListOrNone(agent_tools(tools_list)))
                     IN  /\ agents' = Update(agents, agent_id, agent)
                         /\ agent_origin' =
                                Update(agent_origin, agent_id,
                                       [params |-> params,
                                        model_known |-> model_id \in DOMAIN models])
                         /\ resp' = jsonify(200, [id |-> agent_id, name |-> agent_name,
                                                  status |-> "created"])
    /\ replaced' = NoneObj
    /\ UNCHANGED <<models, memory_managers, tools, threads, memory_log>>

-----------------------------------------------------------------------------
(* POST /tools, lines 257-283.                                             *)

create_tool(body) ==
    LET params == parse_json_params(body) IN
    /\ req' = [op |-> "create_tool", id |-> None, body |-> body]
    /\ IF IsNone(params)
       THEN /\ resp' = Unhandled("AttributeError")
            /\ UNCHANGED tools
       ELSE LET tool_id == Get(params, "id", "default-tool")
                tool_name == Get(params, "name", "Default Tool")
                tool_description == Get(params, "description", "")
                tool_parameters == Get(params, "parameters", "{}")
                tool == Function(tool_name, tool_description, tool_parameters)
            IN  /\ tools' = Update(tools, tool_id, tool)
                /\ resp' = jsonify(200, [id |-> tool_id, name |-> tool_name,
                                         status |-> "created"])
    /\ replaced' = NoneObj
    /\ UNCHANGED <<models, agents, memory_managers, threads, memory_log, agent_origin>>

-----------------------------------------------------------------------------
(* POST /memory, lines 285-312.                                            *)

DefaultLimit == 100

create_memory_manager(body) ==
    LET params == parse_json_params(body) IN
    /\ req' = [op |-> "create_memory_manager", id |-> None, body |-> body]
    /\ IF IsNone(params)
       THEN /\ resp' = Unhandled("AttributeError")
            /\ UNCHANGED <<memory_managers, memory_log>>
       ELSE LET memory_id == Get(params, "id", "default-memory")
                model_id == Get(params, "modelId", None)
            IN  IF model_missing(model_id)
                THEN /\ resp' = NotFound("Model ", model_id)
                     /\ UNCHANGED <<memory_managers, memory_log>>
                ELSE LET memory_manager == MemoryManager(lookup_model(model_id),
                                                         Get(params, "limit", DefaultLimit))
                     IN  /\ memory_managers' = Update(memory_managers, memory_id, memory_manager)
                         /\ memory_log' = Update(memory_log, memory_id, <<>>)
                         /\ resp' = jsonify(200, [id |-> memory_id, status |-> "created"])
    /\ replaced' = NoneObj
    /\ UNCHANGED <<models, agents, tools, threads, agent_origin>>

-----------------------------------------------------------------------------
(* POST /agents/<agent_id>/run, lines 226-255.                             *)

\* set_user_message writing only a message slot that is still empty
set_user_message_once(agent, message) ==
    IF agent.user_message = None
    THEN [agent EXCEPT !.user_message = message]
    ELSE agent

\* line 240
set_user_message(agent, message) == [agent EXCEPT !.user_message = message]

\* set_session_id clearing the session id when no workspace id is given
set_session_id_reset(agent, workspace_id) ==
    IF TruthyJson(workspace_id)
    THEN [agent EXCEPT !.session_id = Str(workspace_id)]
    ELSE [agent EXCEPT !.session_id = None]

\* lines 243-244
set_session_id(agent, workspace_id) ==
    IF TruthyJson(workspace_id)
    THEN [agent EXCEPT !.session_id = Str(workspace_id)]
    ELSE agent

\* lines 249-253
run_response(content, agent_id, workspace_id) ==
    jsonify(200, [content |-> content, agentId |-> agent_id, workspaceId |-> workspace_id])

\* the handler served without interruption
run_agent(agent_id, body) ==
    /\ req' = [op |-> "run_agent", id |-> agent_id, body |-> body]
    /\ IF agent_id \notin DOMAIN agents
       THEN /\ resp' = NotFound("Agent ", agent_id)
            /\ UNCHANGED agents
       ELSE LET params == parse_json_params(body) IN
            IF IsNone(params)
            THEN /\ resp' = Unhandled("AttributeError")
                 /\ UNCHANGED agents
            ELSE LET message == Get(params, "message", "")
                     workspace_id == Get(params, "workspaceId", NoneObj)
                     agent == set_session_id(set_user_message(agents[agent_id], message),
                                             workspace_id)
                 IN  /\ agents' = [agents EXCEPT ![agent_id] = agent]
                     /\ resp' = run_response(Agent_run(agent), agent_id, workspace_id)
    /\ replaced' = NoneObj
    /\ UNCHANGED <<models, memory_managers, tools, threads, memory_log, agent_origin>>

-----------------------------------------------------------------------------
(* POST /memory/<memory_id>/add, lines 314-334.                            *)

\* add_memory creating the memory manager it does not find
add_memory_upsert(memory_id, body) ==
    LET params == parse_json_params(body)
        memory_content == IF IsNone(params) THEN "" ELSE Get(params, "content", "")
        found == Get(memory_managers, memory_id, MemoryManager(NoneObj, DefaultLimit))
        call == MemoryManager_add_memory(found, memory_content)
    IN  /\ req' = [op |-> "add_memory", id |-> memory_id, body |-> body]
        /\ memory_managers' = Update(memory_managers, memory_id, call.self)
        /\ memory_log' = Update(memory_log, memory_id,
                                Append(Get(memory_log, memory_id, <<>>), memory_content))
        /\ resp' = jsonify(200, [result |-> TRUE, status |-> "success"])
        /\ replaced' = NoneObj
        /\ UNCHANGED <<models, agents, tools, threads, agent_origin>>

add_memory(memory_id, body) ==
    /\ req' = [op |-> "add_memory", id |-> memory_id, body |-> body]
    /\ IF memory_id \notin DOMAIN memory_managers
       THEN /\ resp' = NotFound("Memory manager ", memory_id)
            /\ UNCHANGED <<memory_managers, memory_log>>
       ELSE LET params == parse_json_params(body) IN
            IF IsNone(params)
            THEN /\ resp' = Unhandled("AttributeError")
                 /\ UNCHANGED <<memory_managers, memory_log>>
            ELSE LET memory_content == Get(params, "content", "")
                     call == MemoryManager_add_memory(memory_managers[memory_id],
                                                      memory_content)
                 IN  IF call.raised
                     THEN /\ resp' = Unhandled(call.error)
                          /\ UNCHANGED <<memory_managers, memory_log>>
                     ELSE /\ memory_managers' =
                                [memory_managers EXCEPT ![memory_id] = call.self]
                          /\ memory_log' =
                                [memory_log EXCEPT ![memory_id] = Append(@, memory_content)]
                          /\ resp' = jsonify(200, [result |-> call.result,
                                                   status |-> "success"])
    /\ replaced' = NoneObj
    /\ UNCHANGED <<models, agents, tools, threads, agent_origin>>

\* the model serves at most MaxAdds successful adds per memory manager
CanAdd(memory_id) ==
    memory_id \in DOMAIN memory_log => Len(memory_log[memory_id]) < MaxAdds

-----------------------------------------------------------------------------
(* GET /status, lines 336-345.                                             *)

\* list(d.keys()): every key of the dict once; the order of the keys in the
\* list is not modelled
keys_list(d) ==
    CHOOSE s \in [1..Cardinality(DOMAIN d) -> DOMAIN d] :
        \A k \in DOMAIN d : \E i \in 1..Cardinality(DOMAIN d) : s[i] = k

\* get_status with the agents' keys listed as the models
get_status_swapped ==
    /\ req' = [op |-> "get_status", id |-> None, body |-> Null]
    /\ resp' = jsonify(200, [status |-> "running",
                             models |-> keys_list(agents),
                             agents |-> keys_list(agents),
                             memory_managers |-> keys_list(memory_managers),
                             tools |-> keys_list(tools)])
    /\ replaced' = NoneObj
    /\ UNCHANGED <<registries, threads, memory_log, agent_origin>>

get_status ==
    /\ req' = [op |-> "get_status", id |-> None, body |-> Null]
    /\ resp' = jsonify(200, [status |-> "running",
                             models |-> keys_list(models),
                             agents |-> keys_list(agents),
                             memory_managers |-> keys_list(memory_managers),
                             tools |-> keys_list(tools)])
    /\ replaced' = NoneObj
    /\ UNCHANGED <<registries, threads, memory_log, agent_origin>>

-----------------------------------------------------------------------------
(* The state at start-up, lines 93-97.                                     *)

Threads == {"t1", "t2"}

Init ==
    /\ models = <<>>
    /\ agents = <<>>
    /\ memory_managers = <<>>
    /\ tools = <<>>
    /\ req = [op |-> "none", id |-> None, body |-> Null]
    /\ resp = jsonify(0, <<>>)
    /\ threads = [t \in Threads |-> Idle]
    /\ memory_log = <<>>
    /\ agent_origin = <<>>
    /\ replaced = NoneObj

-----------------------------------------------------------------------------
(* Spec: every endpoint, requests served one at a time.                    *)

ModelBodies ==
    { Malformed, Null,
      Obj([type |-> "unsupported", id |-> "m1", name |-> "Llama"]),
      Obj([type |-> "Anthropic", id |-> "m1", name |-> "Claude"]),
      Obj([type |-> "openai", id |-> ""]) }

ToolBodies ==
    { Malformed, Null, Obj([id |-> "t1", name |-> "search"]) }

AgentBodies ==
    { Malformed, Null,
      Obj([id |-> "a1", name |-> "Bob", modelId |-> "m1", tools |-> <<"t1", "t3">>]),
      Obj([id |-> "a1", modelId |-> "m9"]),
      Obj([id |-> "a1", modelId |-> ""]) }

MemoryBodies ==
    { Malformed, Null,
      Obj([id |-> "k1", modelId |-> "m1", limit |-> 1]),
      Obj([id |-> "k1", modelId |-> "m9", limit |-> 2]) }

GenerateBodies ==
    { Obj([messages |-> <<[content |-> "hello"]>>]) }

RunBodies ==
    { Obj([message |-> "hi", workspaceId |-> JNum(7)]) }

AddBodies ==
    { Obj([content |-> "a"]) }

ModelIds == {"m1", "m9"}

AgentIds == {"a1", "a9"}

MemoryIds == {"k1", "k9"}

Next ==
    \/ \E body \in ModelBodies : create_model(body)
    \/ \E model_id \in ModelIds, body \in GenerateBodies : generate_response(model_id, body)
    \/ \E body \in AgentBodies : create_agent(body)
    \/ \E agent_id \in AgentIds, body \in RunBodies : run_agent(agent_id, body)
    \/ \E body \in ToolBodies : create_tool(body)
    \/ \E body \in MemoryBodies : create_memory_manager(body)
    \/ \E memory_id \in MemoryIds, body \in AddBodies :
            CanAdd(memory_id) /\ add_memory(memory_id, body)
    \/ get_status

Spec == Init /\ [][Next]_vars

-----------------------------------------------------------------------------
(* Properties of Spec.                                                     *)

CreateOps == {"create_model", "create_agent", "create_tool", "create_memory_manager"}

\* the spellings of the two provider names, whatever the case of the letters
SupportedType(type) ==
    type \in {"openai", "OpenAI", "OPENAI", "anthropic", "Anthropic", "ANTHROPIC"}

AllPopulated ==
    /\ DOMAIN models # {}
    /\ DOMAIN agents # {}
    /\ DOMAIN tools # {}
    /\ DOMAIN memory_managers # {}

\* C3: a createModel request whose type is neither "openai" nor "anthropic"
\* in any letter case is answered 400 "Unsupported model type: {type}" and
\* changes none of the four registries, also when its id is already a key
\* of the model registry.
C3_UnsupportedTypeRejected ==
    [][ ( /\ req'.op = "create_model"
          /\ req'.body.kind = "object"
          /\ "type" \in DOMAIN req'.body.json
          /\ ~SupportedType(req'.body.json.type) )
        => ( /\ resp' = jsonify(400, [error |-> <<"Unsupported model type: ",
                                                  req'.body.json.type>>])
             /\ registries' = registries ) ]_vars

\* an unsupported type was rejected for an id the model registry holds
C3_Witness ==
    /\ req.op = "create_model"
    /\ resp.status = 400
    /\ ~SupportedType(req.body.json.type)
    /\ req.body.json.id \in DOMAIN models
    /\ AllPopulated

\* C4: generate on an unknown model id, runAgent on an unknown agent id and
\* addMemory on an unknown memory-manager id are answered 404 and change
\* no registry and no stored entity.
C4_AbsentIdChangesNothing ==
    [][ ( \/ req'.op = "generate_response" /\ req'.id \notin DOMAIN models
          \/ req'.op = "run_agent" /\ req'.id \notin DOMAIN agents
          \/ req'.op = "add_memory" /\ req'.id \notin DOMAIN memory_managers )
        => ( /\ resp'.status = 404
             /\ registries' = registries ) ]_vars

\* addMemory on an unknown id was answered 404 while other managers exist
C4_Witness ==
    /\ req.op = "add_memory"
    /\ req.id \notin DOMAIN memory_managers
    /\ resp.status = 404
    /\ AllPopulated

\* C5 as stated: createAgent or createMemoryManager whose request carries a
\* modelId that is no key of the model registry is answered 404 and changes
\* no registry.
C5_GivenModelIdRejected ==
    [][ ( /\ req'.op \in {"create_agent", "create_memory_manager"}
          /\ req'.body.kind = "object"
          /\ "modelId" \in DOMAIN req'.body.json
          /\ req'.body.json.modelId \notin DOMAIN models )
        => ( /\ resp'.status = 404
             /\ registries' = registries ) ]_vars

\* C5 amended: createAgent or createMemoryManager whose request carries a
\* non-empty modelId that is no key of the model registry is answered 404
\* and changes no registry: an agent or memory manager already stored under
\* the request's id keeps its value.
C5_NonEmptyModelIdRejected ==
    [][ ( /\ req'.op \in {"create_agent", "create_memory_manager"}
          /\ req'.body.kind = "object"
          /\ "modelId" \in DOMAIN req'.body.json
          /\ req'.body.json.modelId # ""
          /\ req'.body.json.modelId \notin DOMAIN models )
        => ( /\ resp'.status = 404
             /\ registries' = registries ) ]_vars

\* a create with an unknown modelId was rejected for an id already stored
C5_Witness ==
    /\ req.op \in {"create_agent", "create_memory_manager"}
    /\ resp.status = 404
    /\ req.body.json.modelId \notin DOMAIN models
    /\ req.body.json.id \in DOMAIN agents \cup DOMAIN memory_managers
    /\ AllPopulated

\* C9: a create request whose body is not parseable JSON is answered 500
\* and changes no registry.
C9_MalformedBodyRejected ==
    [][ ( /\ req'.op \in CreateOps
          /\ req'.body.kind = "malformed" )
        => ( /\ resp'.status = 500
             /\ registries' = registries ) ]_vars

-----------------------------------------------------------------------------
(* SpecMemory: the memory endpoints, with every kind of capacity.          *)

Limits == {-1, 0, 1, 2}

MemoryBodiesM ==
    { Null, Obj([id |-> "k1"]) }
    \cup { Obj([id |-> "k1", limit |-> l]) : l \in Limits }

AddBodiesM ==
    { Null, Obj([content |-> "a"]), Obj([content |-> "b"]), Obj([content |-> "c"]) }

MemoryIdsM == {"k1", "k9"}

NextMemory ==
    \/ \E body \in MemoryBodiesM : create_memory_manager(body)
    \/ \E memory_id \in MemoryIdsM, body \in AddBodiesM :
            CanAdd(memory_id) /\ add_memory(memory_id, body)

SpecMemory == Init /\ [][NextMemory]_vars

Contents(memories) == [i \in 1..Len(memories) |-> memories[i].content]

Min(a, b) == IF a < b THEN a ELSE b

LastN(s, n) == SubSeq(s, Len(s) - n + 1, Len(s))

\* C1 as stated: every memory manager in the registry, whatever integer
\* capacity it was created with, holds at most capacity entries.
C1_LengthWithinCapacity ==
    \A id \in DOMAIN memory_managers :
        Len(memory_managers[id].memories) <= memory_managers[id].limit

\* C1 amended: every memory manager in the registry whose capacity is at
\* least 0 holds at most capacity entries.
C1_LengthWithinNonNegativeCapacity ==
    \A id \in DOMAIN memory_managers :
        memory_managers[id].limit >= 0 =>
            Len(memory_managers[id].memories) <= memory_managers[id].limit

\* a manager is full after more adds than its capacity
C1_Witness ==
    \E id \in DOMAIN memory_managers :
        /\ memory_managers[id].limit = 2
        /\ Len(memory_managers[id].memories) = 2
        /\ Len(memory_log[id]) > 2

\* C2: a memory manager of capacity c >= 1 to which x1..xn were added holds
\* exactly the last min(n, c) of them, in the order they were added.
C2_FifoEviction ==
    \A id \in DOMAIN memory_managers :
        memory_managers[id].limit >= 1 =>
            Contents(memory_managers[id].memories) =
                LastN(memory_log[id],
                      Min(Len(memory_log[id]), memory_managers[id].limit))

\* capacity 2 after "a", "b", "c" holds "b", "c"
C2_Witness ==
    \E id \in DOMAIN memory_managers :
        /\ memory_managers[id].limit = 2
        /\ memory_log[id] = <<"a", "b", "c">>
        /\ Contents(memory_managers[id].memories) = <<"b", "c">>

-----------------------------------------------------------------------------
(* SpecModels: POST /models with every combination of present and absent   *)
(* request fields.                                                         *)

\* the dict d restricted to the keys in keys
Pick(d, keys) == [k \in keys |-> d[k]]

FullConfig ==
    [model |-> "my-model", temperature |-> "0.2", maxTokens |-> "256",
     systemPrompt |-> "be brief"]

ConfigsX ==
    { Pick(FullConfig, keys) :
        keys \in { {}, {"temperature"}, {"model", "systemPrompt"}, DOMAIN FullConfig } }

FullModelParams ==
    [type : {"openai", "Anthropic"}, id : {"m1"}, name : {"Claude"}, config : ConfigsX]

ModelBodiesX ==
    { Malformed, Null, Obj([type |-> "unsupported", id |-> "m1"]) }
    \cup { Obj(Pick(full, keys)) :
             full \in FullModelParams, keys \in SUBSET {"type", "id", "name", "config"} }

NextModels == \E body \in ModelBodiesX : create_model(body)

SpecModels == Init /\ [][NextModels]_vars

IsOpenAI(type) == type \in {"openai", "OpenAI", "OPENAI"}

\* the handle a createModel request describes, with the defaults for what it omits
Described(p) ==
    LET type == IF "type" \in DOMAIN p THEN p.type ELSE "openai"
        config == IF "config" \in DOMAIN p THEN p.config ELSE EmptyDict
    IN  [class |-> IF IsOpenAI(type) THEN "OpenAIChat" ELSE "Claude",
         id |-> IF "model" \in DOMAIN config THEN config.model
                ELSE IF IsOpenAI(type) THEN "gpt-4o" ELSE "claude-3-7-sonnet-20250219",
         name |-> IF "name" \in DOMAIN p THEN p.name ELSE "Default Model",
         api_key |-> IF IsOpenAI(type) THEN Environ("OPENAI_API_KEY")
                     ELSE Environ("ANTHROPIC_API_KEY"),
         temperature |-> IF "temperature" \in DOMAIN config THEN config.temperature ELSE "0.7",
         max_tokens |-> IF "maxTokens" \in DOMAIN config THEN config.maxTokens ELSE None,
         system_prompt |-> IF "systemPrompt" \in DOMAIN config THEN config.systemPrompt
                           ELSE None]

\* C10: a successful createModel leaves under its id the handle its own
\* request describes, with defaults for the fields it omits and nothing
\* of the handle stored there before; when the id was already a key, the
\* key set of the registry is unchanged, and no other entry changes.
C10_OverwriteWithoutMerge ==
    [][ ( /\ req'.op = "create_model"
          /\ req'.body.kind = "object"
          /\ resp'.status = 200 )
        => LET p == req'.body.json
               id == IF "id" \in DOMAIN p THEN p.id ELSE "default-model"
           IN  /\ DOMAIN models' = DOMAIN models \cup {id}
               /\ models'[id] = Described(p)
               /\ \A other \in DOMAIN models \ {id} : models'[other] = models[other] ]_vars

\* a request without name and config overwrote a handle that differed from
\* the defaults in every field
C10_Witness ==
    /\ req.op = "create_model"
    /\ req.body.kind = "object"
    /\ resp.status = 200
    /\ ~IsNone(replaced)
    /\ DOMAIN req.body.json = {"id"}
    /\ LET new == models[req.body.json.id]
       IN  /\ new = Described(req.body.json)
           /\ replaced.class # new.class
           /\ replaced.id # new.id
           /\ replaced.name # new.name
           /\ replaced.temperature # new.temperature
           /\ replaced.max_tokens # new.max_tokens
           /\ replaced.system_prompt # new.system_prompt

-----------------------------------------------------------------------------
(* SpecAgents: models, tools and agents, requests served one at a time.    *)

ModelBodiesA ==
    { Obj([id |-> "m1", name |-> "GPT"]),
      Obj([id |-> "", type |-> "anthropic"]) }

ToolBodiesA ==
    { Obj([id |-> "t1", name |-> "search"]),
      Obj([id |-> "t1", name |-> "lookup", description |-> "find", parameters |-> "{q}"]),
      Obj([id |-> "t2", name |-> "calc"]) }

AgentBodiesA ==
    { Obj([id |-> "a1", name |-> "Bob", modelId |-> "m1", tools |-> <<"t1", "t3", "t2">>]),
      Obj([id |-> "a1", name |-> "Eve", tools |-> <<"t2", "t2", "t1">>]),
      Obj([id |-> "a1", modelId |-> ""]),
      Obj([id |-> "a1", modelId |-> "m9", tools |-> <<"t1">>]) }

RunBodiesA ==
    { Obj([message |-> "hi", workspaceId |-> JNum(7)]),
      Obj([message |-> "yo"]),
      Obj([message |-> "hi", workspaceId |-> JNum(0)]),
      Obj([workspaceId |-> JStr("w2")]) }

NextAgents ==
    \/ \E body \in ModelBodiesA : create_model(body)
    \/ \E body \in ToolBodiesA : create_tool(body)
    \/ \E body \in AgentBodiesA : create_agent(body)
    \/ \E agent_id \in AgentIds, body \in RunBodiesA : run_agent(agent_id, body)

SpecAgents == Init /\ [][NextAgents]_vars

ToolPresent(tool_id) == tool_id \in DOMAIN tools

\* C6: a createAgent request that is not rejected for its modelId succeeds
\* whatever tool ids it names, and the tools of the agent it creates are
\* the handles of exactly those requested ids that are keys of the tool
\* registry, in the order of the request.
C6_ToolsResolved ==
    [][ ( /\ req'.op = "create_agent"
          /\ req'.body.kind = "object"
          /\ resp'.status # 404 )
        => LET p == req'.body.json
               requested == IF "tools" \in DOMAIN p THEN p.tools ELSE <<>>
               present == SelectSeq(requested, ToolPresent)
           IN  /\ resp'.status = 200
               /\ agents'[p.id].tools = [i \in 1..Len(present) |-> tools[present[i]]] ]_vars

\* three tools were requested, the second did not exist, and the agent got
\* the first and the third
C6_Witness ==
    /\ req.op = "create_agent"
    /\ resp.status = 200
    /\ "tools" \in DOMAIN req.body.json
    /\ req.body.json.tools = <<"t1", "t3", "t2">>
    /\ DOMAIN tools = {"t1", "t2"}
    /\ agents["a1"].tools = <<tools["t1"], tools["t2"]>>

RunMessage(r) == IF "message" \in DOMAIN r.body.json THEN r.body.json.message ELSE ""

OriginName(o) == IF "name" \in DOMAIN o.params THEN o.params.name ELSE "Default Agent"

\* C7 as stated: runAgent served on its own returns "No model available for
\* this agent" for an agent created without a modelId, and "I am {name},
\* executing a response based on: {m}", m the message of this call, for an
\* agent created with a modelId that was a key of the model registry.
C7_RunOutputByModelId ==
    [][ ( /\ req'.op = "run_agent"
          /\ resp'.status = 200 )
        => LET o == agent_origin[req'.id]
           IN  /\ "modelId" \notin DOMAIN o.params
                    => resp'.body.content = NoModelText
               /\ ("modelId" \in DOMAIN o.params /\ o.model_known)
                    => resp'.body.content = RunText(OriginName(o), RunMessage(req')) ]_vars

\* C7 amended: runAgent served on its own returns "No model available for
\* this agent" for an agent created without a modelId or with the empty
\* modelId, and "I am {name}, executing a response based on: {m}", m the
\* message of this call, for an agent created with a non-empty modelId that
\* was a key of the model registry.
C7_RunOutputByNonEmptyModelId ==
    [][ ( /\ req'.op = "run_agent"
          /\ resp'.status = 200 )
        => LET o == agent_origin[req'.id]
               given == "modelId" \in DOMAIN o.params /\ o.params.modelId # ""
           IN  /\ ~given => resp'.body.content = NoModelText
               /\ (given /\ o.model_known)
                    => resp'.body.content = RunText(OriginName(o), RunMessage(req')) ]_vars

\* an agent with a model answered with the message of this call after an
\* earlier run with another message had left its session id behind
C7_Witness ==
    /\ req.op = "run_agent"
    /\ resp.status = 200
    /\ RunMessage(req) = "yo"
    /\ agents[req.id].session_id = "7"
    /\ "modelId" \in DOMAIN agent_origin[req.id].params
    /\ agent_origin[req.id].params.modelId = "m1"
    /\ resp.body.content = RunText("Bob", "yo")

-----------------------------------------------------------------------------
(* SpecConc: run_agent requests served by concurrent threads (app.run      *)
(* serves each request on a thread of its own), one step per line that     *)
(* reads or writes the shared Agent object.  A thread holds its request    *)
(* and the locals of the handler; `overwritten` records, for a thread      *)
(* between its write of line 240 and its read of line 247, that another    *)
(* thread has written user_message of the same agent since.  Registry      *)
(* writes are taken while no run is in flight, so that the Agent object a  *)
(* thread holds is the one the registry holds.                             *)

\* lines 229-237: look the agent up and read the parameters
run_begin(t, agent_id, body) ==
    /\ threads[t].pc = "idle"
    /\ IF agent_id \notin DOMAIN agents
       THEN /\ req' = [op |-> "run_agent", id |-> agent_id, body |-> body]
            /\ resp' = NotFound("Agent ", agent_id)
            /\ replaced' = NoneObj
            /\ UNCHANGED threads
       ELSE LET params == parse_json_params(body) IN
            IF IsNone(params)
            THEN /\ req' = [op |-> "run_agent", id |-> agent_id, body |-> body]
                 /\ resp' = Unhandled("AttributeError")
                 /\ replaced' = NoneObj
                 /\ UNCHANGED threads
            ELSE /\ threads' = [threads EXCEPT ![t] =
                        [pc |-> "L240", agent_id |-> agent_id, body |-> body,
                         message |-> Get(params, "message", ""),
                         workspace_id |-> Get(params, "workspaceId", NoneObj),
                         overwritten |-> FALSE]]
                 /\ UNCHANGED <<req, resp, replaced>>
    /\ UNCHANGED <<registries, memory_log, agent_origin>>

\* line 240: agent.user_message = message
run_L240(t) ==
    LET self == threads[t] IN
    /\ self.pc = "L240"
    /\ agents' = [agents EXCEPT ![self.agent_id] = set_user_message(@, self.message)]
    /\ threads' = [u \in Threads |->
            IF u = t
            THEN [self EXCEPT !.pc = "L243"]
            ELSE IF /\ threads[u].pc \in {"L243", "L247"}
                    /\ threads[u].agent_id = self.agent_id
                 THEN [threads[u] EXCEPT !.overwritten = TRUE]
                 ELSE threads[u]]
    /\ UNCHANGED <<models, memory_managers, tools, req, resp, memory_log,
                   agent_origin, replaced>>

\* lines 243-244: if workspace_id: agent.session_id = str(workspace_id)
run_L243(t) ==
    LET self == threads[t] IN
    /\ self.pc = "L243"
    /\ agents' = [agents EXCEPT ![self.agent_id] = set_session_id(@, self.workspace_id)]
    /\ threads' = [threads EXCEPT ![t].pc = "L247"]
    /\ UNCHANGED <<models, memory_managers, tools, req, resp, memory_log,
                   agent_origin, replaced>>

\* line 247: response = agent.run()
run_L247(t) ==
    LET self == threads[t] IN
    /\ self.pc = "L247"
    /\ threads' = [threads EXCEPT ![t] =
            [pc |-> "L249", agent_id |-> self.agent_id, body |-> self.body,
             message |-> self.message, workspace_id |-> self.workspace_id,
             overwritten |-> self.overwritten,
             response |-> Agent_run(agents[self.agent_id])]]
    /\ UNCHANGED <<registries, req, resp, memory_log, agent_origin, replaced>>

\* lines 249-253: return the response
run_L249(t) ==
    LET self == threads[t] IN
    /\ self.pc = "L249"
    /\ req' = [op |-> "run_agent", id |-> self.agent_id, body |-> self.body]
    /\ resp' = run_response(self.response, self.agent_id, self.workspace_id)
    /\ replaced' = NoneObj
    /\ threads' = [threads EXCEPT ![t] = Idle]
    /\ UNCHANGED <<registries, memory_log, agent_origin>>

ModelBodiesC == { Obj([id |-> "m1", name |-> "GPT"]) }

AgentBodiesC ==
    { Obj([id |-> "a1", name |-> "Bob", modelId |-> "m1"]),
      Obj([id |-> "a2", name |-> "Eve"]) }

RunBodiesC ==
    { Obj([message |-> "hi", workspaceId |-> JNum(7)]),
      Obj([message |-> "yo"]) }

AgentIdsC == {"a1", "a2", "a9"}

NextConc ==
    \/ NoneInFlight /\ \E body \in ModelBodiesC : create_model(body)
    \/ NoneInFlight /\ \E body \in AgentBodiesC : create_agent(body)
    \/ \E t \in Threads, agent_id \in AgentIdsC, body \in RunBodiesC :
            run_begin(t, agent_id, body)
    \/ \E t \in Threads : run_L240(t)
    \/ \E t \in Threads : run_L243(t)
    \/ \E t \in Threads : run_L247(t)
    \/ \E t \in Threads : run_L249(t)

SpecConc == Init /\ [][NextConc]_vars

\* C8: a runAgent call on an agent with a model returns content that
\* reflects a message other than its own only when another call wrote
\* userMessage of the same agent between this call's write and its read;
\* with two calls interleaved that way (C8_Witness) the content returned
\* to one call reflects the message of the other.
C8_ForeignMessageOnlyByRace ==
    \A t \in Threads :
        ( /\ threads[t].pc = "L249"
          /\ ~IsNone(agents[threads[t].agent_id].model)
          /\ threads[t].response
                # RunText(agents[threads[t].agent_id].name, threads[t].message) )
        => threads[t].overwritten

\* one call is about to return content built from the other call's message
C8_Witness ==
    \E t \in Threads : \E u \in Threads \ {t} :
        /\ threads[t].pc = "L249"
        /\ threads[u].pc \in {"L243", "L247", "L249"}
        /\ threads[u].agent_id = threads[t].agent_id
        /\ threads[u].message # threads[t].message
        /\ threads[t].response
              = RunText(agents[threads[t].agent_id].name, threads[u].message)

-----------------------------------------------------------------------------
(* Properties of Spec: the status snapshot and the life of an id.          *)

\* the list names every element of the set, each once
ListsOnce(list, set) ==
    /\ Len(list) = Cardinality(set)
    /\ {list[i] : i \in 1..Len(list)} = set

\* the ids a step adds to the registry of a kind: the id of the response
\* when the step is a successful create of that kind, none otherwise
Created(op, r, a) == IF r.op = op /\ a.status = 200 THEN {a.body.id} ELSE {}

\* C11: the key set of each registry grows by exactly the id of each
\* successful create of its kind and by nothing else, and getStatus
\* returns in each of its four arrays the keys of the registry of that kind,
\* each once, and changes no registry.
C11_StatusSnapshot ==
    [][ /\ DOMAIN models' = DOMAIN models \cup Created("create_model", req', resp')
        /\ DOMAIN agents' = DOMAIN agents \cup Created("create_agent", req', resp')
        /\ DOMAIN tools' = DOMAIN tools \cup Created("create_tool", req', resp')
        /\ DOMAIN memory_managers' =
              DOMAIN memory_managers \cup Created("create_memory_manager", req', resp')
        /\ req'.op = "get_status"
             => ( /\ registries' = registries
                  /\ resp'.status = 200
                  /\ resp'.body.status = "running"
                  /\ ListsOnce(resp'.body.models, DOMAIN models)
                  /\ ListsOnce(resp'.body.agents, DOMAIN agents)
                  /\ ListsOnce(resp'.body.memory_managers, DOMAIN memory_managers)
                  /\ ListsOnce(resp'.body.tools, DOMAIN tools) ) ]_vars

\* getStatus answered with several ids of every kind, one of them an agent
\* that has been run
C11_Witness ==
    /\ req.op = "get_status"
    /\ Len(resp.body.models) = 3
    /\ Len(resp.body.agents) = 2
    /\ Len(resp.body.tools) = 2
    /\ Len(resp.body.memory_managers) = 2
    /\ "a1" \in DOMAIN agents
    /\ agents["a1"].user_message # None

\* C12: no step removes a key from any of the four registries, and a key
\* appears in a registry only by a successful create call of that
\* registry's kind.
C12_MonotonicPresence ==
    [][ /\ DOMAIN models \subseteq DOMAIN models'
        /\ DOMAIN agents \subseteq DOMAIN agents'
        /\ DOMAIN tools \subseteq DOMAIN tools'
        /\ DOMAIN memory_managers \subseteq DOMAIN memory_managers'
        /\ DOMAIN models' # DOMAIN models
             => req'.op = "create_model" /\ resp'.status = 200
        /\ DOMAIN agents' # DOMAIN agents
             => req'.op = "create_agent" /\ resp'.status = 200
        /\ DOMAIN tools' # DOMAIN tools
             => req'.op = "create_tool" /\ resp'.status = 200
        /\ DOMAIN memory_managers' # DOMAIN memory_managers
             => req'.op = "create_memory_manager" /\ resp'.status = 200 ]_vars

\* a createModel call has failed with one id of every kind present, the
\* memory manager holding an entry
C12_Witness ==
    /\ req.op = "create_model"
    /\ resp.status = 400
    /\ AllPopulated
    /\ \E k \in DOMAIN memory_managers : Len(memory_managers[k].memories) > 0

-----------------------------------------------------------------------------
(* SpecDefaults: POST /models with every subset of the config fields.      *)

ConfigsD == { Pick(FullConfig, keys) : keys \in SUBSET DOMAIN FullConfig }

ModelBodiesD ==
    { Obj([id |-> "m1"]), Obj([id |-> "m1", type |-> "openai"]) }
    \cup { Obj([id |-> "m1", config |-> c]) : c \in ConfigsD }
    \cup { Obj([id |-> "m1", type |-> t, config |-> c]) :
             t \in {"openai", "Anthropic"}, c \in ConfigsD }

NextDefaults == \E body \in ModelBodiesD : create_model(body)

SpecDefaults == Init /\ [][NextDefaults]_vars

\* C13: in the handle a successful createModel stores, each of model,
\* temperature, maxTokens and systemPrompt is the value the config gives
\* when the config has the field and its default exactly when the config
\* lacks it, whatever other fields the config has; a request without a
\* type stores an OpenAI handle and answers with type "openai".
C13_IndependentDefaults ==
    [][ ( /\ req'.op = "create_model"
          /\ req'.body.kind = "object"
          /\ resp'.status = 200 )
        => LET p == req'.body.json
               config == IF "config" \in DOMAIN p THEN p.config ELSE EmptyDict
               given(k) == k \in DOMAIN config
               m == models'[p.id]
           IN  /\ given("model") => m.id = config.model
               /\ ~given("model") <=>
                    m.id = (IF m.class = "OpenAIChat" THEN "gpt-4o"
                            ELSE "claude-3-7-sonnet-20250219")
               /\ given("temperature") => m.temperature = config.temperature
               /\ ~given("temperature") <=> m.temperature = "0.7"
               /\ given("maxTokens") => m.max_tokens = config.maxTokens
               /\ ~given("maxTokens") <=> m.max_tokens = None
               /\ given("systemPrompt") => m.system_prompt = config.systemPrompt
               /\ ~given("systemPrompt") <=> m.system_prompt = None
               /\ m.class = (IF "type" \in DOMAIN p /\ ~IsOpenAI(p.type)
                             THEN "Claude" ELSE "OpenAIChat")
               /\ "type" \notin DOMAIN p
                    => /\ m.api_key = Environ("OPENAI_API_KEY")
                       /\ resp'.body.type = "openai" ]_vars

\* a request without a type whose config gives only maxTokens stored a
\* handle with that maxTokens and the three other defaults
C13_Witness ==
    /\ req.op = "create_model"
    /\ req.body.kind = "object"
    /\ resp.status = 200
    /\ "type" \notin DOMAIN req.body.json
    /\ "config" \in DOMAIN req.body.json
    /\ DOMAIN req.body.json.config = {"maxTokens"}
    /\ models["m1"].class = "OpenAIChat"
    /\ models["m1"].id = "gpt-4o"
    /\ models["m1"].temperature = "0.7"
    /\ models["m1"].max_tokens = "256"
    /\ models["m1"].system_prompt = None

-----------------------------------------------------------------------------
(* SpecConcMem: addMemory calls served by two threads (app.run, line 349,  *)
(* serves each request in its own thread).  A thread's position is the     *)
(* line of MemoryManager.add_memory it executes next; seen_len is the      *)
(* length it read at line 81, and `interleaved` records, for a thread      *)
(* between its test of line 81 and its append of line 84, that another     *)
(* thread has changed the same list since.  Memory managers are created    *)
(* while no add is in flight.                                              *)

\* the test of line 81 with `>` for `>=`
memory_full_gt(self) == Len(self.memories) > self.limit

\* line 81: len(self.memories) >= self.limit
memory_full(self) == Len(self.memories) >= self.limit

\* the other threads that are between lines 81 and 84 on the same manager
\* learn that the list has changed under them
mark_interleaved(t, after) ==
    [u \in Threads |->
        IF u = t
        THEN after
        ELSE IF /\ threads[u].pc \in {"L82", "L84"}
                /\ threads[u].memory_id = threads[t].memory_id
             THEN [threads[u] EXCEPT !.interleaved = TRUE]
             ELSE threads[u]]

\* lines 317-327: look the manager up, read the content, enter add_memory
add_begin(t, memory_id, body) ==
    /\ threads[t].pc = "idle"
    /\ IF memory_id \notin DOMAIN memory_managers
       THEN /\ req' = [op |-> "add_memory", id |-> memory_id, body |-> body]
            /\ resp' = NotFound("Memory manager ", memory_id)
            /\ replaced' = NoneObj
            /\ UNCHANGED threads
       ELSE LET params == parse_json_params(body) IN
            IF IsNone(params)
            THEN /\ req' = [op |-> "add_memory", id |-> memory_id, body |-> body]
                 /\ resp' = Unhandled("AttributeError")
                 /\ replaced' = NoneObj
                 /\ UNCHANGED threads
            ELSE /\ threads' = [threads EXCEPT ![t] =
                        [pc |-> "L81", memory_id |-> memory_id, body |-> body,
                         content |-> Get(params, "content", ""),
                         seen_len |-> 0, interleaved |-> FALSE]]
                 /\ UNCHANGED <<req, resp, replaced>>
    /\ UNCHANGED <<registries, memory_log, agent_origin>>

\* line 81: if len(self.memories) >= self.limit
add_L81(t) ==
    LET self == threads[t]
        manager == memory_managers[self.memory_id]
    IN  /\ self.pc = "L81"
        /\ threads' = [threads EXCEPT ![t] =
                [self EXCEPT !.pc = IF memory_full(manager) THEN "L82" ELSE "L84",
                             !.seen_len = Len(manager.memories)]]
        /\ UNCHANGED <<registries, req, resp, memory_log, agent_origin, replaced>>

\* line 82: self.memories.pop(0); on an empty list it raises IndexError,
\* which the handler answers with 500 (lines 333-334)
add_L82(t) ==
    LET self == threads[t]
        manager == memory_managers[self.memory_id]
    IN  /\ self.pc = "L82"
        /\ IF manager.memories = <<>>
           THEN /\ req' = [op |-> "add_memory", id |-> self.memory_id, body |-> self.body]
                /\ resp' = Unhandled("pop from empty list")
                /\ replaced' = NoneObj
                /\ threads' = [threads EXCEPT ![t] = Idle]
                /\ UNCHANGED memory_managers
           ELSE /\ memory_managers' = [memory_managers EXCEPT
                        ![self.memory_id].memories = Tail(@)]
                /\ threads' = mark_interleaved(t, [self EXCEPT !.pc = "L84"])
                /\ UNCHANGED <<req, resp, replaced>>
        /\ UNCHANGED <<models, agents, tools, memory_log, agent_origin>>

\* line 84: self.memories.append(Memory(content))
add_L84(t) ==
    LET self == threads[t] IN
    /\ self.pc = "L84"
    /\ memory_managers' = [memory_managers EXCEPT
            ![self.memory_id].memories = Append(@, Memory(self.content))]
    /\ memory_log' = [memory_log EXCEPT ![self.memory_id] = Append(@, self.content)]
    /\ threads' = mark_interleaved(t, [self EXCEPT !.pc = "L329"])
    /\ UNCHANGED <<models, agents, tools, req, resp, agent_origin, replaced>>

\* lines 85 and 329-332: return True, answered with 200
add_L329(t) ==
    LET self == threads[t] IN
    /\ self.pc = "L329"
    /\ req' = [op |-> "add_memory", id |-> self.memory_id, body |-> self.body]
    /\ resp' = jsonify(200, [result |-> TRUE, status |-> "success"])
    /\ replaced' = NoneObj
    /\ threads' = [threads EXCEPT ![t] = Idle]
    /\ UNCHANGED <<registries, memory_log, agent_origin>>

MemoryBodiesK ==
    { Obj([id |-> "k1", limit |-> 0]), Obj([id |-> "k1", limit |-> 1]),
      Obj([id |-> "k1", limit |-> 2]) }

AddBodiesK == { Null, Obj([content |-> "a"]) }

MemoryIdsK == {"k1", "k9"}

NextConcMem ==
    \/ NoneInFlight /\ \E body \in MemoryBodiesK : create_memory_manager(body)
    \/ \E t \in Threads, memory_id \in MemoryIdsK, body \in AddBodiesK :
            CanAdd(memory_id) /\ add_begin(t, memory_id, body)
    \/ \E t \in Threads : add_L81(t)
    \/ \E t \in Threads : add_L82(t)
    \/ \E t \in Threads : add_L84(t)
    \/ \E t \in Threads : add_L329(t)

SpecConcMem == Init /\ [][NextConcMem]_vars

\* C14: an append of an addMemory call leaves more entries than the
\* capacity (>= 0) of its memory manager only when another call changed
\* the list between this call's capacity check and its append, or when
\* the list was already over capacity at the check; with two calls
\* interleaved so that both pass the check before either appends
\* (C14_Witness) the length exceeds the capacity.
C14_OverCapacityOnlyByInterleaving ==
    [][ \A t \in Threads :
          ( /\ threads[t].pc = "L84"
            /\ threads'[t].pc = "L329"
            /\ memory_managers[threads[t].memory_id].limit >= 0
            /\ Len(memory_managers'[threads[t].memory_id].memories)
                 > memory_managers[threads[t].memory_id].limit )
          => \/ threads[t].interleaved
             \/ threads[t].seen_len > memory_managers[threads[t].memory_id].limit ]_vars

\* both calls read the same length, below the capacity, at their checks and
\* both have appended: the manager holds one entry more than its capacity
C14_Witness ==
    \E t \in Threads : \E u \in Threads \ {t} :
        /\ threads[t].pc = "L329"
        /\ threads[u].pc = "L329"
        /\ threads[t].memory_id = threads[u].memory_id
        /\ threads[t].seen_len = threads[u].seen_len
        /\ LET manager == memory_managers[threads[t].memory_id]
           IN  /\ manager.limit >= 1
               /\ threads[t].seen_len < manager.limit
               /\ Len(manager.memories) > manager.limit

-----------------------------------------------------------------------------
(* Properties of SpecAgents: what a run writes.                            *)

-----------------------------------------------------------------------------
(* SpecBinding: models and tools created and overwritten around an agent   *)
(* and a memory manager that refer to them.                                *)

ModelBodiesB ==
    { Obj([id |-> "m1", name |-> "GPT"]),
      Obj([id |-> "m1", name |-> "Claude", type |-> "anthropic"]) }

ToolBodiesB ==
    { Obj([id |-> "t1", name |-> "search"]),
      Obj([id |-> "t1", name |-> "lookup"]),
      Obj([id |-> "t2", name |-> "calc"]) }

AgentBodiesB ==
    { Obj([id |-> "a1", name |-> "Bob", modelId |-> "m1", tools |-> <<"t1", "t2">>]),
      Obj([id |-> "a1", name |-> "Eve", tools |-> <<"t2">>]) }

MemoryBodiesB == { Obj([id |-> "k1", modelId |-> "m1", limit |-> 1]), Obj([id |-> "k1"]) }

RunBodiesB == { Obj([message |-> "hi"]) }

NextBinding ==
    \/ \E body \in ModelBodiesB : create_model(body)
    \/ \E body \in ToolBodiesB : create_tool(body)
    \/ \E body \in AgentBodiesB : create_agent(body)
    \/ \E body \in MemoryBodiesB : create_memory_manager(body)
    \/ \E body \in RunBodiesB : run_agent("a1", body)

SpecBinding == Init /\ [][NextBinding]_vars

\* the handle the registry holds under the modelId of a request, if any
Bound(p) ==
    IF "modelId" \in DOMAIN p /\ p.modelId \in DOMAIN models
    THEN models[p.modelId]
    ELSE NoneObj

\* C16: a successful createAgent or createMemoryManager stores the model
\* handle, and for an agent only tool handles, that the registries hold
\* when it is served; every other step, createModel and createTool
\* included, leaves the model and the tool list of every existing agent
\* and the model of every existing memory manager as they were; and a
\* successful runAgent answers with the no-model text exactly when the
\* agent holds no model.
C16_CreationTimeBinding ==
    [][ /\ (req'.op = "create_agent" /\ resp'.status = 200)
             => /\ agents'[resp'.body.id].model = Bound(req'.body.json)
                /\ \A i \in 1..Len(agents'[resp'.body.id].tools) :
                       \E t \in DOMAIN tools :
                           agents'[resp'.body.id].tools[i] = tools[t]
        /\ (req'.op = "create_memory_manager" /\ resp'.status = 200)
             => memory_managers'[resp'.body.id].model = Bound(req'.body.json)
        /\ \A a \in DOMAIN agents :
               ~(req'.op = "create_agent" /\ resp'.status = 200 /\ resp'.body.id = a)
                 => /\ agents'[a].model = agents[a].model
                    /\ agents'[a].tools = agents[a].tools
        /\ \A k \in DOMAIN memory_managers :
               ~(/\ req'.op = "create_memory_manager"
                 /\ resp'.status = 200
                 /\ resp'.body.id = k)
                 => memory_managers'[k].model = memory_managers[k].model
        /\ (req'.op = "run_agent" /\ resp'.status = 200)
             => (resp'.body.content = NoModelText <=> IsNone(agents[req'.id].model)) ]_vars

\* createModel has just overwritten the handle that an agent and a memory
\* manager hold: both still hold the replaced handle, and the agent still
\* lists the tool handle that a createTool has since overwritten, without
\* the tool that was created after it
C16_Witness ==
    /\ req.op = "create_model"
    /\ resp.status = 200
    /\ ~IsNone(replaced)
    /\ "a1" \in DOMAIN agents
    /\ "k1" \in DOMAIN memory_managers
    /\ agents["a1"].model = replaced
    /\ memory_managers["k1"].model = replaced
    /\ models["m1"] # replaced
    /\ DOMAIN tools = {"t1", "t2"}
    /\ Len(agents["a1"].tools) = 1
    /\ agents["a1"].tools[1] # tools["t1"]
    /\ agents["a1"].tools[1].name = "search"

-----------------------------------------------------------------------------
(* Properties of SpecMemory: the capacity a manager was created with.      *)

\* C17: on a memory manager whose capacity is 0 or negative every
\* addMemory call is answered with 500 and the entries stay empty; on one
\* whose capacity is at least 1 every addMemory call whose body is a JSON
\* object is answered with 200 and result true, and the content it adds is
\* the last entry afterwards.
C17_NonPositiveCapacity ==
    [][ ( /\ req'.op = "add_memory"
          /\ req'.id \in DOMAIN memory_managers )
        => LET old == memory_managers[req'.id]
               new == memory_managers'[req'.id]
           IN  /\ old.limit <= 0
                    => /\ resp'.status = 500
                       /\ old.memories = <<>>
                       /\ new.memories = <<>>
               /\ (old.limit >= 1 /\ req'.body.kind = "object")
                    => /\ resp'.status = 200
                       /\ resp'.body.result = TRUE
                       /\ new.memories # <<>>
                       /\ new.memories[Len(new.memories)].content
                            = req'.body.json.content
                       /\ new.limit = old.limit ]_vars

\* an addMemory call with content on a manager of capacity 0 or less was
\* answered with the 500 of the eviction from an empty list, and the
\* manager holds nothing
C17_Witness ==
    /\ req.op = "add_memory"
    /\ req.body.kind = "object"
    /\ req.id \in DOMAIN memory_managers
    /\ memory_managers[req.id].limit <= 0
    /\ memory_managers[req.id].memories = <<>>
    /\ resp.status = 500
    /\ resp.body.error = "pop from empty list"

====
